---- MODULE Spec2Model ----
\* Model of gotpi (src/otp.go): one-time-pad key images and the
\* encrypt/decrypt pixel transform, together with the Go image/colour
\* conventions the code relies on (alpha-premultiplied RGBA(), Set's colour
\* model conversion, image.Rect normalisation, At outside the bounds).
EXTENDS Integers, Naturals, Sequences, FiniteSets, TLC

\* ---------------------------------------------------------------- bounds
\* largest width/height of a decoded (file) image
MaxDim == 2
\* largest |kw| passed to KeyGen
MaxKw == 2
\* largest stride of the sampled random byte streams
MaxStep == 1

\* ------------------------------------------------------- integer helpers
Min2(a, b) == IF a < b THEN a ELSE b
Max2(a, b) == IF a > b THEN a ELSE b

\* right shift by 8 of an unsigned value (r>>8)
Shr8(v) == v \div 256
\* uint8(v): narrowing keeps the low 8 bits
U8(v) == v % 256
\* uint16(v): narrowing keeps the low 16 bits
U16(v) == v % 65536
\* uint32 arithmetic wraps modulo 2^32: the high 16-bit half is reduced
\* modulo 2^16 and recombined with the low half
U32(v) == ((v \div 65536) % 65536) * 65536 + (v % 65536)

RECURSIVE XorBits(_, _, _)
XorBits(a, b, n) ==
  IF n = 0 THEN 0
  ELSE ((a + b) % 2) + 2 * XorBits(a \div 2, b \div 2, n - 1)
\* the ^ operator on two uint8 values
Xor8(a, b) == XorBits(a, b, 8)

\* ---------------------------------------------------------------- colours
\* A colour value is [t, v]: t names the Go type, v is <<R, G, B, A>> for
\* color.RGBA / color.NRGBA / color.RGBA64 and <<bool>> for Pixel.
MkRGBA(r, g, b, a) == [t |-> "RGBA", v |-> <<r, g, b, a>>]
MkNRGBA(r, g, b, a) == [t |-> "NRGBA", v |-> <<r, g, b, a>>]
\* color.RGBA64: premultiplied 16-bit channels
MkRGBA64(r, g, b, a) == [t |-> "RGBA64", v |-> <<r, g, b, a>>]

\* type Pixel bool; Black = true, White = false
Black == [t |-> "Pixel", v |-> <<TRUE>>]
White == [t |-> "Pixel", v |-> <<FALSE>>]
\* Pixel(b): conversion of a bool to the Pixel type
Pixel(b) == [t |-> "Pixel", v |-> <<b>>]

\* func (c Pixel) RGBA()
PixelRGBA(c) ==
  IF c = Black THEN <<0, 0, 0, 65535>>
  ELSE <<65535, 65535, 65535, 65535>>

\* c.RGBA(): the alpha-premultiplied 16-bit channels of a colour.
\* color.RGBA stores premultiplied bytes (r |= r<<8); color.NRGBA stores
\* straight bytes and multiplies by alpha (r |= r<<8; r *= a; r /= 0xff).
ColorRGBA(c) ==
  CASE c.t = "Pixel" -> PixelRGBA(c)
    [] c.t = "RGBA64" -> c.v
    [] c.t = "RGBA"  -> <<c.v[1] * 257, c.v[2] * 257, c.v[3] * 257, c.v[4] * 257>>
    [] c.t = "NRGBA" -> <<(c.v[1] * 257 * c.v[4]) \div 255,
                          (c.v[2] * 257 * c.v[4]) \div 255,
                          (c.v[3] * 257 * c.v[4]) \div 255,
                          c.v[4] * 257>>

\* color.RGBAModel.Convert, used by (*image.RGBA).Set
RGBAModelConvert(c) ==
  IF c.t = "RGBA" THEN c
  ELSE LET q == ColorRGBA(c)
       IN MkRGBA(U8(Shr8(q[1])), U8(Shr8(q[2])), U8(Shr8(q[3])), U8(Shr8(q[4])))

\* color.NRGBAModel.Convert, used by (*image.NRGBA).Set
NRGBAModelConvert(c) ==
  IF c.t = "NRGBA" THEN c
  ELSE LET q == ColorRGBA(c)
       IN IF q[4] = 65535
            THEN MkNRGBA(U8(Shr8(q[1])), U8(Shr8(q[2])), U8(Shr8(q[3])), 255)
          ELSE IF q[4] = 0
            THEN MkNRGBA(0, 0, 0, 0)
          ELSE MkNRGBA(U8(Shr8((q[1] * 65535) \div q[4])),
                       U8(Shr8((q[2] * 65535) \div q[4])),
                       U8(Shr8((q[3] * 65535) \div q[4])),
                       U8(Shr8(q[4])))

\* the weighted sum with the weights scaled to tens of thousands
monoSumScaled(r, g, b) == 2990 * r + 5870 * g + 1140 * b + 500
\* 299*r + 587*g + 114*b + 500, before any wrap-around
monoSum(r, g, b) == 299 * r + 587 * g + 114 * b + 500

\* y := (299*r + 587*g + 114*b + 500) / 1000 in uint32 arithmetic
monoLuma(r, g, b) == U32(monoSum(r, g, b)) \div 1000

\* monoModel with the comparison turned round (dark colours become White)
monoModelInverted(c) ==
  IF c.t = "Pixel" THEN c
  ELSE LET q == ColorRGBA(c)
       IN Pixel(U16(monoLuma(q[1], q[2], q[3])) >= 32768)

\* func monoModel(c color.Color) color.Color
monoModel(c) ==
  IF c.t = "Pixel" THEN c
  ELSE LET q == ColorRGBA(c)
       IN Pixel(U16(monoLuma(q[1], q[2], q[3])) < 32768)

\* ----------------------------------------------------------------- images
\* image.Rect(x0, y0, x1, y1): swaps the coordinates to be well-formed
Rect(x0, y0, x1, y1) ==
  [min |-> <<Min2(x0, x1), Min2(y0, y1)>>, max |-> <<Max2(x0, x1), Max2(y0, y1)>>]

Dx(r) == r.max[1] - r.min[1]
Dy(r) == r.max[2] - r.min[2]

\* the points of a rectangle: Min inclusive, Max exclusive
Points(r) == {<<x, y>> : x \in r.min[1]..(r.max[1] - 1), y \in r.min[2]..(r.max[2] - 1)}

\* the zero value of an image's colour type (what At returns off-image)
ZeroColour(kind) == [t |-> kind, v |-> <<0, 0, 0, 0>>]

\* an image: its colour type, its bounds and its stored pixels
MkImage(kind, r, pix) == [kind |-> kind, min |-> r.min, max |-> r.max, pix |-> pix]

\* image.NewRGBA(r): all pixels zero
NewRGBA(r) == MkImage("RGBA", r, [p \in Points(r) |-> ZeroColour("RGBA")])
\* image.NewNRGBA(r): all pixels zero
NewNRGBA(r) == MkImage("NRGBA", r, [p \in Points(r) |-> ZeroColour("NRGBA")])

\* the value standing for "no image"
NoImage == MkImage("none", Rect(0, 0, 0, 0), [p \in {} |-> ZeroColour("none")])

\* img.Bounds()
Bounds(m) == [min |-> m.min, max |-> m.max]

\* img.At(x, y): the zero colour outside the bounds
At(m, x, y) ==
  IF <<x, y>> \in DOMAIN m.pix THEN m.pix[<<x, y>>] ELSE ZeroColour(m.kind)

\* img.Set(x, y, c): converts c to the image's colour model; no-op off-image
Set(m, x, y, c) ==
  IF <<x, y>> \in DOMAIN m.pix
    THEN [m EXCEPT !.pix[<<x, y>>] =
            IF m.kind = "RGBA" THEN RGBAModelConvert(c) ELSE NRGBAModelConvert(c)]
    ELSE m

\* the i-th coordinate of the loops "for y ... { for x ... }" over bounds r
LoopPoint(r, i) == <<r.min[1] + (i % Dx(r)), r.min[2] + (i \div Dx(r))>>
\* those loops stopping one iteration early
LoopCountShort(r) == IF Dx(r) > 0 /\ Dy(r) > 0 THEN Dx(r) * Dy(r) - 1 ELSE 0
\* the number of iterations of those loops
LoopCount(r) == IF Dx(r) > 0 /\ Dy(r) > 0 THEN Dx(r) * Dy(r) ELSE 0

\* ------------------------------------------------------------ resampling
\* resize.Resize(width, height, img, resize.Lanczos3) of nfnt/resize.
\* A zero width or height is derived from the aspect ratio
\* (uint(0.7 + old/scale)); an image that already has the requested size, or
\* has no pixels, is handed back itself; otherwise a new image at the origin
\* is resampled.  The filter kernel is external: a deterministic
\* nearest-sample stands for it, only its geometry is relied on.
ResizeW(w, h, m) ==
  IF w # 0 THEN w
  ELSE IF h = 0 THEN Dx(Bounds(m))
  ELSE (7 * Dy(Bounds(m)) + 10 * Dx(Bounds(m)) * h) \div (10 * Dy(Bounds(m)))
ResizeH(w, h, m) ==
  IF h # 0 THEN h
  ELSE IF w = 0 THEN Dy(Bounds(m))
  ELSE (7 * Dx(Bounds(m)) + 10 * Dy(Bounds(m)) * w) \div (10 * Dx(Bounds(m)))

\* resize.Resize hands back its argument itself (no new image)
ResizeSame(w, h, m) ==
  \/ Dx(Bounds(m)) <= 0
  \/ Dy(Bounds(m)) <= 0
  \/ (ResizeW(w, h, m) = Dx(Bounds(m)) /\ ResizeH(w, h, m) = Dy(Bounds(m)))

Resize(w, h, m) ==
  IF Dx(Bounds(m)) <= 0 \/ Dy(Bounds(m)) <= 0 THEN m
  ELSE LET nw == ResizeW(w, h, m)
           nh == ResizeH(w, h, m)
       IN IF nw = Dx(Bounds(m)) /\ nh = Dy(Bounds(m)) THEN m
          ELSE MkImage("RGBA", Rect(0, 0, nw, nh),
                 [p \in Points(Rect(0, 0, nw, nh)) |->
                    RGBAModelConvert(At(m, m.min[1] + ((p[1] * Dx(Bounds(m))) \div nw),
                                           m.min[2] + ((p[2] * Dy(Bounds(m))) \div nh)))])

\* -------------------------------------------------------------- transform
\* the AND-like combination: White only when both tags are White
bwResultAnd(origPixel, keyPixel) ==
  IF origPixel = White /\ keyPixel = White THEN White ELSE Black

\* the complement convention: Black when the tags are equal
bwResultSwapped(origPixel, keyPixel) ==
  IF origPixel # keyPixel THEN White ELSE Black

\* result := White; if origPixel != keyPixel { result = Black }
bwResult(origPixel, keyPixel) ==
  IF origPixel # keyPixel THEN Black ELSE White

\* first loop of encBW: monoResized.Set(x, y, MonochromeModel.Convert(img.At(x, y)))
RECURSIVE encBWPassA(_, _, _, _)
encBWPassA(m, bounds, monoResized, i) ==
  IF i >= LoopCount(bounds) THEN monoResized
  ELSE LET p == LoopPoint(bounds, i)
       IN encBWPassA(m, bounds,
                     Set(monoResized, p[1], p[2], monoModel(At(m, p[1], p[2]))), i + 1)

\* second loop of encBW: compare the source tag with the key tag
RECURSIVE encBWPassB(_, _, _, _, _)
encBWPassB(monoResized, k, bounds, out, i) ==
  IF i >= LoopCount(bounds) THEN out
  ELSE LET p == LoopPoint(bounds, i)
           origPixel == monoModel(At(monoResized, p[1], p[2]))
           keyPixel == monoModel(At(k, p[1], p[2]))
       IN encBWPassB(monoResized, k, bounds,
                     Set(out, p[1], p[2], bwResult(origPixel, keyPixel)), i + 1)

\* func encBW(img, k image.Image, out *image.RGBA)
encBW(m, k, out) ==
  LET bounds == Bounds(k)
      monoResized == encBWPassA(m, bounds, NewRGBA(bounds), 0)
  IN encBWPassB(monoResized, k, bounds, out, 0)

\* the channel combination with addition modulo 256 in place of XOR
rgbResultAdd(q, kq) ==
  MkRGBA(U8(U8(Shr8(q[1])) + U8(Shr8(kq[1]))),
         U8(U8(Shr8(q[2])) + U8(Shr8(kq[2]))),
         U8(U8(Shr8(q[3])) + U8(Shr8(kq[3]))), 255)

\* resR := uint8(r>>8) ^ uint8(kr>>8) ...; color.RGBA{resR, resG, resB, 255}
rgbResult(q, kq) ==
  MkRGBA(Xor8(U8(Shr8(q[1])), U8(Shr8(kq[1]))),
         Xor8(U8(Shr8(q[2])), U8(Shr8(kq[2]))),
         Xor8(U8(Shr8(q[3])), U8(Shr8(kq[3]))), 255)

\* the loop of encRGB
RECURSIVE encRGBLoop(_, _, _, _, _)
encRGBLoop(m, k, bounds, out, i) ==
  IF i >= LoopCount(bounds) THEN out
  ELSE LET p == LoopPoint(bounds, i)
       IN encRGBLoop(m, k, bounds,
                     Set(out, p[1], p[2],
                         rgbResult(ColorRGBA(At(m, p[1], p[2])),
                                   ColorRGBA(At(k, p[1], p[2])))), i + 1)

\* func encRGB(img, k image.Image, out *image.RGBA)
encRGB(m, k, out) == encRGBLoop(m, k, Bounds(k), out, 0)

\* Encrypt with the output allocated over the source's bounds
EncryptSrcBounds(m, keyImg, rgb) ==
  LET bounds == Bounds(keyImg)
      out == NewRGBA(Bounds(m))
      resized == Resize(Dx(bounds), Dy(bounds), m)
  IN IF rgb THEN encRGB(resized, keyImg, out) ELSE encBW(resized, keyImg, out)

\* func Encrypt(img image.Image, keyImg image.Image, rgb bool) image.Image
Encrypt(m, keyImg, rgb) ==
  LET bounds == Bounds(keyImg)
      out == NewRGBA(Bounds(keyImg))
      resized == Resize(Dx(bounds), Dy(bounds), m)
  IN IF rgb THEN encRGB(resized, keyImg, out) ELSE encBW(resized, keyImg, out)

\* a Decrypt that ignores the colour mode and always takes the RGB path
DecryptAlwaysRGB(m, keyImg, rgb) == Encrypt(m, keyImg, TRUE)

\* func Decrypt(img image.Image, keyImg image.Image, rgb bool) image.Image
Decrypt(m, keyImg, rgb) == Encrypt(m, keyImg, rgb)

\* --------------------------------------------------------- key generation
\* sample bytes delivered by crypto/rand
ByteSamples == <<0, 1, 254, 255>>
\* the random sources drawn from: byte i is a strided walk over the samples.
\* A source that fails delivers ok bytes and then returns an error from
\* every rand.Read.
HealthySources ==
  [start : 0..(Len(ByteSamples) - 1), step : 0..MaxStep, fails : {FALSE}, ok : {0}]
FailingSources == [start : {1}, step : {0}, fails : {TRUE}, ok : 0..1]
RandSources == HealthySources \cup FailingSources
\* rand.Read has delivered byte i (from 0) of source s
Delivered(s, i) == ~s.fails \/ i < s.ok
\* the i-th byte (from 0) in the buffers handed to rand.Read: the byte the
\* source delivered, or the zero of the freshly allocated buffer when the
\* read failed
RandByte(s, i) ==
  IF Delivered(s, i) THEN ByteSamples[((s.start + i * s.step) % Len(ByteSamples)) + 1] ELSE 0
\* the bytes KeyGen asks of rand.Read
BytesNeeded(kwArg, rgbArg) ==
  (IF kwArg > 0 THEN kwArg * kwArg ELSE 0) * (IF rgbArg THEN 3 ELSE 1)
\* source s fails while KeyGen(kwArg, rgbArg) reads from it
FailsDuring(s, kwArg, rgbArg) == s.fails /\ s.ok < BytesNeeded(kwArg, rgbArg)

\* iterations of "for y := range height { for x := range width {"
KeyLoopCount(width, height) == IF width > 0 /\ height > 0 THEN width * height ELSE 0

\* the monochrome key pixel with the opposite mapping of the random bit
bwKeyPixelSwapped(b) == IF b % 2 = 0 THEN White ELSE Black

\* if b[0]&1 == 0 { Black } else { White }
bwKeyPixel(b) == IF b % 2 = 0 THEN Black ELSE White

\* the loop of keyGenBW: one byte read per pixel; n counts the bytes read
RECURSIVE keyGenBWLoop(_, _, _, _, _)
keyGenBWLoop(width, height, s, k, i) ==
  IF i >= KeyLoopCount(width, height) THEN [k |-> k, n |-> i]
  ELSE keyGenBWLoop(width, height, s,
                    Set(k, i % width, i \div width, bwKeyPixel(RandByte(s, i))), i + 1)

\* keyGenBW allocating width+1 columns
keyGenBWWide(width, height, s) ==
  keyGenBWLoop(width, height, s, NewNRGBA(Rect(0, 0, width + 1, height)), 0)

\* func keyGenBW(width, height int) image.Image
keyGenBW(width, height, s) ==
  keyGenBWLoop(width, height, s, NewNRGBA(Rect(0, 0, width, height)), 0)

\* the loop of keyGenRGB: three bytes read per pixel
RECURSIVE keyGenRGBLoop(_, _, _, _, _)
keyGenRGBLoop(width, height, s, k, i) ==
  IF i >= KeyLoopCount(width, height) THEN [k |-> k, n |-> 3 * i]
  ELSE keyGenRGBLoop(width, height, s,
                     Set(k, i % width, i \div width,
                         MkRGBA(RandByte(s, 3 * i), RandByte(s, 3 * i + 1),
                                RandByte(s, 3 * i + 2), 255)), i + 1)

\* func keyGenRGB(width, height int) image.Image
keyGenRGB(width, height, s) ==
  keyGenRGBLoop(width, height, s, NewNRGBA(Rect(0, 0, width, height)), 0)

\* func KeyGen(kw int, rgb bool) image.Image
KeyGen(kwArg, rgbArg, s) ==
  IF rgbArg THEN keyGenRGB(kwArg, kwArg, s) ELSE keyGenBW(kwArg, kwArg, s)

\* ---------------------------------------------------------- decoded files
\* sample pixels of decoded images: opaque black, white and a dark colour,
\* and a translucent pixel (premultiplied in image.RGBA, straight in
\* image.NRGBA, as png.Decode returns for a file with an alpha channel)
RGBAPalette ==
  << MkRGBA(0, 0, 0, 255), MkRGBA(255, 255, 255, 255),
     MkRGBA(200, 100, 50, 255), MkRGBA(100, 50, 25, 128) >>
NRGBAPalette ==
  << MkNRGBA(0, 0, 0, 255), MkNRGBA(255, 255, 255, 255),
     MkNRGBA(200, 100, 50, 255), MkNRGBA(200, 100, 50, 128) >>
Palette(kind) == IF kind = "RGBA" THEN RGBAPalette ELSE NRGBAPalette

\* image.Decode of a w x h file: pixel i (row-major) walks the palette
\* from position start
DecodedImage(kind, w, h, start) ==
  MkImage(kind, Rect(0, 0, w, h),
          [p \in Points(Rect(0, 0, w, h)) |->
             Palette(kind)[((start + p[2] * w + p[1]) % Len(Palette(kind))) + 1]])

\* the images imgOpen can return
DecodedImages ==
  {DecodedImage(kind, w, h, start) :
     kind \in {"RGBA", "NRGBA"}, w \in 0..MaxDim, h \in 0..MaxDim,
     start \in 0..(Len(RGBAPalette) - 1)}

\* sample 16-bit channel values around the luma midpoint
Chan16Samples == {0, 1, 32767, 32768, 65535}
\* the colours handed to MonochromeModel.Convert directly
ConvertSamples ==
  {Black, White}
  \cup {RGBAPalette[i] : i \in 1..Len(RGBAPalette)}
  \cup {NRGBAPalette[i] : i \in 1..Len(NRGBAPalette)}
  \cup {MkRGBA(127, 127, 127, 255), MkRGBA(128, 128, 128, 255)}
  \cup {MkRGBA64(r, g, b, 65535) : r \in Chan16Samples, g \in Chan16Samples, b \in Chan16Samples}

\* ------------------------------------------------------------------ state
VARIABLES
  stage,    \* "start", "mono", "crashed", "key", "loaded", "enc", "dec", "enc2", "xor"
  monoIn,   \* the colour passed to MonochromeModel.Convert
  monoOut,  \* the colour it returned
  keySrc,   \* "none", "gen" (KeyGen) or "file" (decoded)
  kw,       \* the size passed to KeyGen
  keyRgb,   \* the colour mode passed to KeyGen
  rnd,      \* the random source KeyGen read from
  nread,    \* bytes KeyGen read from the random source
  keyImg,   \* the key image
  img,      \* the source image
  rgb,      \* the colour mode of the transform
  out,      \* the image returned by Encrypt
  decOf,    \* what Decrypt was applied to: "cipher" (out) or "source" (img)
  dec,      \* the image returned by Decrypt
  img2,     \* a second message encrypted under the same key
  out2,     \* the ciphertext of the second message
  xorOut,   \* the image returned by the xor command on the two ciphertexts
  pc,       \* position inside one Encrypt call: "idle", "start", "passA", "passB", "rgb", "done"
  li,       \* iterations done of the current pixel loop
  heap,     \* the image objects of the call, by name
  refs,     \* which object the locals img (resized), monoResized and out refer to
  writes    \* the Set calls made so far: receiver object and coordinate

\* the variables of the key-reuse scenario
xorVars == <<img2, out2, xorOut>>

\* the variables of the pixel loops of one Encrypt call
loopVars == <<pc, li, heap, refs, writes>>

\* the variables of the command-level runs, the colour mode apart
cmdVars == <<stage, monoIn, monoOut, keySrc, kw, keyRgb, rnd, nread, keyImg, img, out, decOf, dec,
             xorVars>>

vars == <<stage, monoIn, monoOut, keySrc, kw, keyRgb, rnd, nread, keyImg, img, rgb, out, decOf, dec,
          xorVars, loopVars>>

\* the image objects of an Encrypt call
Objects == {"img", "key", "resized", "mono", "out"}
\* no Encrypt call is being stepped through
LoopIdle ==
  /\ pc = "idle"
  /\ li = 0
  /\ heap = [o \in Objects |-> NoImage]
  /\ refs = [resized |-> "nil", mono |-> "nil", out |-> "nil"]
  /\ writes = << >>

\* no command has run yet
CmdIdle ==
  /\ stage = "start"
  /\ monoIn = White
  /\ monoOut = White
  /\ keySrc = "none"
  /\ kw = 0
  /\ keyRgb = FALSE
  /\ rnd = [start |-> 0, step |-> 0, fails |-> FALSE, ok |-> 0]
  /\ nread = 0
  /\ keyImg = NoImage
  /\ img = NoImage
  /\ out = NoImage
  /\ decOf = "none"
  /\ dec = NoImage
  /\ img2 = NoImage
  /\ out2 = NoImage
  /\ xorOut = NoImage

Init ==
  /\ LoopIdle
  /\ CmdIdle
  /\ rgb = FALSE

\* MonochromeModel.Convert(c): color.ModelFunc(monoModel)
ConvertCall ==
  /\ stage = "start"
  /\ \E c \in ConvertSamples :
       /\ monoIn' = c
       /\ monoOut' = monoModel(c)
  /\ stage' = "mono"
  /\ UNCHANGED <<keySrc, kw, keyRgb, rnd, nread, keyImg, img, rgb, out, decOf, dec, xorVars, loopVars>>

\* key-gen when rand.Read fails on a runtime whose crypto/rand aborts the
\* process instead of returning the error (Go 1.24 and later): no key is
\* returned
KeyGenFatal ==
  /\ stage = "start"
  /\ \E n \in (0 - MaxKw)..MaxKw, c \in BOOLEAN, s \in RandSources :
       /\ FailsDuring(s, n, c)
       /\ kw' = n
       /\ keyRgb' = c
       /\ rnd' = s
       /\ nread' = s.ok
  /\ stage' = "crashed"
  /\ UNCHANGED <<monoIn, monoOut, keySrc, keyImg, img, rgb, out, decOf, dec, xorVars, loopVars>>

\* key-gen: k := gotpi.KeyGen(kw, rgb); the value rand.Read returns is
\* dropped, so a failed read (on a runtime that returns the error) goes
\* unnoticed
KeyGenCmd ==
  /\ stage = "start"
  /\ \E n \in (0 - MaxKw)..MaxKw, c \in BOOLEAN, s \in RandSources :
       LET res == KeyGen(n, c, s)
       IN /\ kw' = n
          /\ keyRgb' = c
          /\ rnd' = s
          /\ nread' = res.n
          /\ keyImg' = res.k
  /\ keySrc' = "gen"
  /\ stage' = "key"
  /\ UNCHANGED <<monoIn, monoOut, img, rgb, out, decOf, dec, xorVars, loopVars>>

\* keyImg := imgOpen(*key)
LoadKey ==
  /\ stage = "start"
  /\ \E k \in DecodedImages : keyImg' = k
  /\ keySrc' = "file"
  /\ stage' = "key"
  /\ UNCHANGED <<monoIn, monoOut, kw, keyRgb, rnd, nread, img, rgb, out, decOf, dec, xorVars, loopVars>>

\* img := imgOpen(*imgF), and the --rgb flag of the run
LoadImg ==
  /\ stage = "key"
  /\ \E m \in DecodedImages, c \in BOOLEAN :
       /\ img' = m
       /\ rgb' = c
  /\ stage' = "loaded"
  /\ UNCHANGED <<monoIn, monoOut, keySrc, kw, keyRgb, rnd, nread, keyImg, out, decOf, dec, xorVars, loopVars>>

\* out := gotpi.Encrypt(img, keyImg, *rgb)
EncryptCall ==
  /\ stage = "loaded"
  /\ out' = Encrypt(img, keyImg, rgb)
  /\ stage' = "enc"
  /\ UNCHANGED <<monoIn, monoOut, keySrc, kw, keyRgb, rnd, nread, keyImg, img, rgb, decOf, dec, xorVars, loopVars>>

\* out := gotpi.Decrypt(decImg, decKeyImg, *rgb), on the ciphertext or on
\* the source itself
DecryptCall ==
  /\ stage = "enc"
  /\ \E which \in {"cipher", "source"} :
       /\ decOf' = which
       /\ dec' = Decrypt(IF which = "cipher" THEN out ELSE img, keyImg, rgb)
  /\ stage' = "dec"
  /\ UNCHANGED <<monoIn, monoOut, keySrc, kw, keyRgb, rnd, nread, keyImg, img, rgb, out, xorVars, loopVars>>

\* a second enc run with the same key: a message of the key's size
\* (the scenario is entered when the first message has the key's size too)
EncryptSecond ==
  /\ stage = "enc"
  /\ Bounds(img) = Bounds(keyImg)
  /\ \E m \in DecodedImages :
       /\ Bounds(m) = Bounds(keyImg)
       /\ img2' = m
       /\ out2' = Encrypt(m, keyImg, rgb)
  /\ stage' = "enc2"
  /\ UNCHANGED <<monoIn, monoOut, keySrc, kw, keyRgb, rnd, nread, keyImg, img, rgb, out, decOf, dec,
                 xorOut, loopVars>>

\* xor: out := gotpi.Encrypt(a, b, *rgb) on the two ciphertexts
XorCmd ==
  /\ stage = "enc2"
  /\ xorOut' = Encrypt(out, out2, rgb)
  /\ stage' = "xor"
  /\ UNCHANGED <<monoIn, monoOut, keySrc, kw, keyRgb, rnd, nread, keyImg, img, rgb, out, decOf, dec,
                 img2, out2, loopVars>>

Next ==
  \/ ConvertCall
  \/ KeyGenFatal
  \/ KeyGenCmd
  \/ LoadKey
  \/ LoadImg
  \/ EncryptCall
  \/ DecryptCall
  \/ EncryptSecond
  \/ XorCmd

Spec == Init /\ [][Next]_vars

\* ------------------------------------------------ one Encrypt call, stepwise
\* the keys and sources one call is stepped through with
LoopKeys ==
  {DecodedImage("NRGBA", w, h, 0) : w \in 0..MaxDim, h \in 0..MaxDim}
  \cup {KeyGen(n, c, [start |-> 0, step |-> 1, fails |-> FALSE, ok |-> 0]).k :
          n \in 1..MaxKw, c \in BOOLEAN}
LoopSources ==
  {DecodedImage(kind, w, h, 1) : kind \in {"RGBA", "NRGBA"}, w \in 1..MaxDim, h \in 1..MaxDim}

\* Encrypt(img, keyImg, rgb) has been called
InitLoop ==
  /\ CmdIdle
  /\ rgb \in BOOLEAN
  /\ pc = "start"
  /\ li = 0
  /\ \E m \in LoopSources, k \in LoopKeys :
       heap = [o \in Objects |-> IF o = "img" THEN m ELSE IF o = "key" THEN k ELSE NoImage]
  /\ refs = [resized |-> "nil", mono |-> "nil", out |-> "nil"]
  /\ writes = << >>

\* the bounds the loops of encBW and encRGB run over: k.Bounds()
LoopBounds == Bounds(heap["key"])

\* encBW converting the image it was given in place
encBWMonoRefInPlace(resizedRef) == resizedRef
\* monoResized := image.NewRGBA(bounds): a new object
encBWMonoRef(resizedRef) == "mono"

\* Encrypt up to the first loop: out allocated over the key's bounds, img
\* rebound to what resize.Resize returns, monoResized allocated by encBW
EncBegin ==
  /\ pc = "start"
  /\ LET w == Dx(LoopBounds)
         h == Dy(LoopBounds)
         resizedRef == IF ResizeSame(w, h, heap["img"]) THEN "img" ELSE "resized"
         monoRef == IF rgb THEN "nil" ELSE encBWMonoRef(resizedRef)
         h1 == [heap EXCEPT !["out"] = NewRGBA(LoopBounds)]
         h2 == IF resizedRef = "resized"
                 THEN [h1 EXCEPT !["resized"] = Resize(w, h, heap["img"])] ELSE h1
         h3 == IF rgb THEN h2 ELSE [h2 EXCEPT ![monoRef] = NewRGBA(LoopBounds)]
     IN /\ heap' = h3
        /\ refs' = [resized |-> resizedRef, mono |-> monoRef, out |-> "out"]
  /\ pc' = IF rgb THEN "rgb" ELSE "passA"
  /\ li' = 0
  /\ UNCHANGED <<cmdVars, rgb, writes>>

\* one iteration of the first loop of encBW
EncBWStepA ==
  /\ pc = "passA"
  /\ li < LoopCount(LoopBounds)
  /\ LET p == LoopPoint(LoopBounds, li)
     IN /\ heap' = [heap EXCEPT ![refs.mono] =
                      Set(heap[refs.mono], p[1], p[2],
                          monoModel(At(heap[refs.resized], p[1], p[2])))]
        /\ writes' = Append(writes, [obj |-> refs.mono, p |-> p])
  /\ li' = li + 1
  /\ UNCHANGED <<cmdVars, rgb, pc, refs>>

\* the first loop of encBW is over
EncBWNextPass ==
  /\ pc = "passA"
  /\ li >= LoopCount(LoopBounds)
  /\ pc' = "passB"
  /\ li' = 0
  /\ UNCHANGED <<cmdVars, rgb, heap, refs, writes>>

\* one iteration of the second loop of encBW
EncBWStepB ==
  /\ pc = "passB"
  /\ li < LoopCount(LoopBounds)
  /\ LET p == LoopPoint(LoopBounds, li)
         origPixel == monoModel(At(heap[refs.mono], p[1], p[2]))
         keyPixel == monoModel(At(heap["key"], p[1], p[2]))
     IN /\ heap' = [heap EXCEPT ![refs.out] =
                      Set(heap[refs.out], p[1], p[2], bwResult(origPixel, keyPixel))]
        /\ writes' = Append(writes, [obj |-> refs.out, p |-> p])
  /\ li' = li + 1
  /\ UNCHANGED <<cmdVars, rgb, pc, refs>>

\* one iteration of the loop of encRGB
EncRGBStep ==
  /\ pc = "rgb"
  /\ li < LoopCount(LoopBounds)
  /\ LET p == LoopPoint(LoopBounds, li)
     IN /\ heap' = [heap EXCEPT ![refs.out] =
                      Set(heap[refs.out], p[1], p[2],
                          rgbResult(ColorRGBA(At(heap[refs.resized], p[1], p[2])),
                                    ColorRGBA(At(heap["key"], p[1], p[2]))))]
        /\ writes' = Append(writes, [obj |-> refs.out, p |-> p])
  /\ li' = li + 1
  /\ UNCHANGED <<cmdVars, rgb, pc, refs>>

\* the last loop is over: return out
EncReturn ==
  /\ pc \in {"passB", "rgb"}
  /\ li >= LoopCount(LoopBounds)
  /\ pc' = "done"
  /\ UNCHANGED <<cmdVars, rgb, li, heap, refs, writes>>

NextLoop ==
  \/ EncBegin
  \/ EncBWStepA
  \/ EncBWNextPass
  \/ EncBWStepB
  \/ EncRGBStep
  \/ EncReturn

\* the call is synchronous and single-threaded: it keeps running
SpecLoop == InitLoop /\ [][NextLoop]_vars /\ WF_vars(NextLoop)

\* ---------------------------------------------------------------- helpers
\* the source as the transform sees it: resized to the key's dimensions
Resized == Resize(Dx(Bounds(keyImg)), Dy(Bounds(keyImg)), img)
\* two images have the same width and height
SameDims(a, b) == Dx(Bounds(a)) = Dx(Bounds(b)) /\ Dy(Bounds(a)) = Dy(Bounds(b))
\* the stored red, green and blue bytes of a pixel
StoredRGB(c) == <<c.v[1], c.v[2], c.v[3]>>
\* pure white and pure black as stored in the output image
WhiteRGBA == MkRGBA(255, 255, 255, 255)
BlackRGBA == MkRGBA(0, 0, 0, 255)
\* the key's coordinates
KeyPoints == Points(Bounds(keyImg))
\* Encrypt has returned
Encrypted == stage \in {"enc", "dec"}
\* Decrypt has been applied to the ciphertext of img under the same key
RoundTripped == stage = "dec" /\ decOf = "cipher"

\* C1: in RGB mode, decrypting the ciphertext of an image R that has the
\* key's dimensions gives back R's red, green and blue bytes at every
\* coordinate of the key's bounds.
C1_RGBInvolution ==
  (RoundTripped /\ rgb /\ SameDims(img, keyImg)) =>
    \A p \in KeyPoints : StoredRGB(At(dec, p[1], p[2])) = StoredRGB(At(img, p[1], p[2]))

\* C2: in monochrome mode, applying the transform twice with the same key to
\* an image R that has the key's dimensions yields, at every coordinate, the
\* pure black or pure white pixel of the tag the luminance threshold gives to
\* R's pixel there.
C2_MonoRoundTrip ==
  (RoundTripped /\ ~rgb /\ SameDims(img, keyImg)) =>
    \A p \in KeyPoints :
      At(dec, p[1], p[2]) = IF monoModel(At(img, p[1], p[2])) = Black THEN BlackRGBA ELSE WhiteRGBA

\* C2 witness: a round trip in which a white source pixel met a black key
\* pixel and a dark colour met a white key pixel
C2_Witness ==
  /\ RoundTripped /\ ~rgb /\ SameDims(img, keyImg)
  /\ \E p \in KeyPoints :
       /\ At(img, p[1], p[2]) = MkRGBA(255, 255, 255, 255)
       /\ monoModel(At(keyImg, p[1], p[2])) = Black
       /\ At(dec, p[1], p[2]) = WhiteRGBA
  /\ \E p \in KeyPoints :
       /\ At(img, p[1], p[2]) = MkRGBA(200, 100, 50, 255)
       /\ monoModel(At(keyImg, p[1], p[2])) = White
       /\ At(dec, p[1], p[2]) = BlackRGBA

\* C3: in monochrome mode the output pixel at every coordinate of the key's
\* bounds is White when the resized source pixel's tag equals the key
\* pixel's tag and Black when the tags differ.
C3_EqualityImpliesWhite ==
  (Encrypted /\ ~rgb) =>
    \A p \in KeyPoints :
      At(out, p[1], p[2]) =
        IF monoModel(At(Resized, p[1], p[2])) = monoModel(At(keyImg, p[1], p[2]))
          THEN WhiteRGBA ELSE BlackRGBA

\* C3 witness: one output with an equal Black pair, an equal White pair and
\* a differing pair
C3_Witness ==
  /\ Encrypted /\ ~rgb
  /\ \E p \in KeyPoints :
       /\ monoModel(At(Resized, p[1], p[2])) = Black
       /\ monoModel(At(keyImg, p[1], p[2])) = Black
       /\ At(out, p[1], p[2]) = WhiteRGBA
  /\ \E p \in KeyPoints :
       /\ monoModel(At(Resized, p[1], p[2])) = White
       /\ monoModel(At(keyImg, p[1], p[2])) = White
       /\ At(out, p[1], p[2]) = WhiteRGBA
  /\ \E p \in KeyPoints :
       /\ monoModel(At(Resized, p[1], p[2])) # monoModel(At(keyImg, p[1], p[2]))
       /\ At(out, p[1], p[2]) = BlackRGBA

\* C4: in RGB mode the output pixel at every coordinate of the key's bounds
\* is the channel-wise XOR of the 8-bit red/green/blue bytes of the resized
\* source pixel and of the key pixel, with alpha 255; the source alpha has no
\* influence.
C4_RGBPixelRule ==
  (Encrypted /\ rgb) =>
    \A p \in KeyPoints :
      LET s == At(Resized, p[1], p[2])
          k == At(keyImg, p[1], p[2])
      IN At(out, p[1], p[2]) =
           MkRGBA(Xor8(s.v[1], k.v[1]), Xor8(s.v[2], k.v[2]), Xor8(s.v[3], k.v[3]), 255)

\* one step keeps the key's bounds, and an image returned by Encrypt or
\* Decrypt has the key's width and height
C5_Step ==
  /\ (stage' \in {"enc", "dec"} /\ stage' # stage) => Bounds(keyImg') = Bounds(keyImg)
  /\ stage' = "enc" => SameDims(out', keyImg)
  /\ stage' = "dec" => SameDims(dec', keyImg)

\* C5: whatever the source's width and height and the colour mode, the image
\* returned by Encrypt (and Decrypt) has exactly the key's width and height,
\* and the call leaves the key's dimensions unchanged.
C5_OutputGeometry == [][C5_Step]_vars

\* C5 witness: Encrypt returned for a source whose size differs from the
\* non-empty key's in both directions
C5_Witness ==
  /\ stage = "enc"
  /\ Dx(Bounds(keyImg)) = 2 /\ Dy(Bounds(keyImg)) = 1
  /\ Dx(Bounds(img)) = 1 /\ Dy(Bounds(img)) = 2
  /\ SameDims(out, keyImg)

\* C6: for every positive size n and either colour mode, KeyGen(n, mode)
\* returns an image of width n and height n.
C6_KeyShape ==
  (keySrc = "gen" /\ kw > 0) =>
    (Dx(Bounds(keyImg)) = kw /\ Dy(Bounds(keyImg)) = kw)

\* C6 witness: a monochrome and non-trivial key of size 2
C6_Witness ==
  /\ keySrc = "gen" /\ kw = 2 /\ ~keyRgb
  /\ Cardinality(DOMAIN keyImg.pix) = 4

\* C7: KeyGen called with a size n <= 0 returns no key image (it fails with
\* InvalidDimension).
C7_InvalidKeySize ==
  (keySrc = "gen" /\ kw <= 0) => keyImg = NoImage

\* the key pixel of loop iteration i of a generated key
GenKeyPixel(i) == At(keyImg, i % kw, i \div kw)

\* C8 as stated: one byte per pixel, least-significant bit 0 gives White and
\* bit 1 gives Black.
C8_BitMappingAsStated ==
  (keySrc = "gen" /\ ~keyRgb /\ kw > 0) =>
    /\ nread = kw * kw
    /\ \A i \in 0..(kw * kw - 1) :
         GenKeyPixel(i) = IF RandByte(rnd, i) % 2 = 0
                            THEN MkNRGBA(255, 255, 255, 255) ELSE MkNRGBA(0, 0, 0, 255)

\* C8 (amended): monochrome key generation of a positive size reads exactly
\* one random byte per pixel and sets the pixel from that byte's
\* least-significant bit: bit 0 gives Black, bit 1 gives White; every pixel
\* of the key is pure black or pure white.
C8_BitMapping ==
  (keySrc = "gen" /\ ~keyRgb /\ kw > 0) =>
    /\ nread = kw * kw
    /\ \A i \in 0..(kw * kw - 1) :
         GenKeyPixel(i) = IF RandByte(rnd, i) % 2 = 0
                            THEN MkNRGBA(0, 0, 0, 255) ELSE MkNRGBA(255, 255, 255, 255)
    /\ \A p \in DOMAIN keyImg.pix :
         keyImg.pix[p] \in {MkNRGBA(0, 0, 0, 255), MkNRGBA(255, 255, 255, 255)}

\* C8 witness: a monochrome key of size 2 holding both a black pixel (from
\* an even byte) and a white pixel (from an odd byte)
C8_Witness ==
  /\ keySrc = "gen" /\ ~keyRgb /\ kw = 2 /\ nread = 4
  /\ \E i \in 0..3 : RandByte(rnd, i) % 2 = 0 /\ GenKeyPixel(i) = MkNRGBA(0, 0, 0, 255)
  /\ \E i \in 0..3 : RandByte(rnd, i) % 2 = 1 /\ GenKeyPixel(i) = MkNRGBA(255, 255, 255, 255)

\* the luma of the stated rule, in unbounded integer arithmetic
StatedLuma(q) == (299 * q[1] + 587 * q[2] + 114 * q[3] + 500) \div 1000

\* C9: the monochrome conversion of a colour with 16-bit channels R, G, B
\* returns Black exactly when (299*R + 587*G + 114*B + 500) / 1000 is below
\* 0x8000 and White otherwise; pure black maps to Black and pure white to
\* White.
C9_LuminanceThreshold ==
  stage = "mono" =>
    /\ monoOut \in {Black, White}
    /\ (monoOut = Black) <=> (StatedLuma(ColorRGBA(monoIn)) < 32768)
    /\ monoIn = MkRGBA(0, 0, 0, 255) => monoOut = Black
    /\ monoIn = MkRGBA(255, 255, 255, 255) => monoOut = White

\* C9 witness: a colour whose luma rounds to 0x7fff was converted to Black
C9_Witness ==
  /\ stage = "mono"
  /\ monoIn = MkRGBA64(32767, 32767, 32768, 65535)
  /\ StatedLuma(ColorRGBA(monoIn)) = 32767
  /\ monoOut = Black

\* C10: Decrypt(img, key, mode) returns the same image as
\* Encrypt(img, key, mode).
C10_DecryptEqualsEncrypt ==
  (stage = "dec" /\ decOf = "source") => dec = out

\* C10 witness: Decrypt and Encrypt were both applied, in monochrome mode, to
\* a source that had to be resized to a non-empty key
C10_Witness ==
  /\ stage = "dec" /\ decOf = "source" /\ ~rgb
  /\ ~SameDims(img, keyImg)
  /\ KeyPoints # {}
  /\ dec = out

C12_RandomSourceFailure ==
  ((keySrc = "gen" \/ stage = "crashed") /\ FailsDuring(rnd, kw, keyRgb)) => keyImg = NoImage

\* the image the stepped call returned
LoopOut == heap[refs.out]
\* the Set calls made on object o at coordinate p
WritesTo(o, p) == {i \in 1..Len(writes) : writes[i].obj = o /\ writes[i].p = p}

\* the stepped call agrees with Encrypt as one step
LoopAgreesWithEncrypt ==
  pc = "done" => LoopOut = Encrypt(heap["img"], heap["key"], rgb)

\* one step of a call leaves the caller's source and key as they were, makes
\* no Set call on either, and returns an object that is neither of them
C13_Step ==
  /\ heap'["img"] = heap["img"]
  /\ heap'["key"] = heap["key"]
  /\ \A i \in 1..Len(writes') : writes'[i].obj \notin {"img", "key"}
  /\ pc' = "done" => (refs'.out \notin {"img", "key"} /\ heap'["out"] # NoImage)

\* C13: Encrypt (and so Decrypt), in either mode, never changes a pixel of
\* the caller's source image or key image, also when resizing hands back the
\* source itself; the result is a newly allocated image, distinct from both.
C13_InputsReadOnly == [][C13_Step]_vars

\* C13 witness: a monochrome call returned whose resize handed back the
\* caller's source itself and whose loops made Set calls
C13_Witness ==
  /\ pc = "done" /\ ~rgb
  /\ refs.resized = "img"
  /\ Len(writes) = 8
  /\ heap["img"] \in LoopSources
  /\ heap["key"] \in LoopKeys

\* when the call has returned: every coordinate of the key's bounds was
\* written once in the output, nothing was written outside the bounds, and
\* equal (source pixel, key pixel) pairs gave equal output pixels
C14_AtReturn ==
  pc = "done" =>
    /\ \A p \in Points(LoopBounds) : Cardinality(WritesTo(refs.out, p)) = 1
    /\ \A i \in 1..Len(writes) : writes[i].p \in Points(LoopBounds)
    /\ \A p \in Points(LoopBounds), q \in Points(LoopBounds) :
         (/\ At(heap[refs.resized], p[1], p[2]) = At(heap[refs.resized], q[1], q[2])
          /\ At(heap["key"], p[1], p[2]) = At(heap["key"], q[1], q[2]))
           => At(LoopOut, p[1], p[2]) = At(LoopOut, q[1], q[2])

\* C14: Encrypt terminates, and when it returns every coordinate inside the
\* key's bounds has had its output pixel written exactly once, none outside
\* has been written, and each output pixel is determined by the resized
\* source pixel and the key pixel at its coordinate.
C14_CompleteSinglePass == <>(pc = "done") /\ [](C14_AtReturn)

\* C14 witness: an RGB call over a 2 x 2 key returned after four writes, two
\* coordinates having met the same source and key pixels
C14_Witness ==
  /\ pc = "done" /\ rgb
  /\ Len(writes) = 4
  /\ Cardinality(Points(LoopBounds)) = 4
  /\ \E p \in Points(LoopBounds), q \in Points(LoopBounds) :
       /\ p # q
       /\ At(heap[refs.resized], p[1], p[2]) = At(heap[refs.resized], q[1], q[2])
       /\ At(heap["key"], p[1], p[2]) = At(heap["key"], q[1], q[2])
       /\ At(LoopOut, p[1], p[2]) = At(LoopOut, q[1], q[2])

\* C15: for channel values in 0..65535 the sum 299*r + 587*g + 114*b + 500
\* stays within 32 unsigned bits (it is at most 65535500) and its quotient
\* by 1000 is at most 65535, so neither the uint32 arithmetic nor the
\* narrowing to uint16 changes the value compared with 0x8000.
C15_LumaInRange ==
  (stage = "mono" /\ monoIn.t # "Pixel") =>
    LET q == ColorRGBA(monoIn)
        sum == monoSum(q[1], q[2], q[3])
        y == monoLuma(q[1], q[2], q[3])
    IN /\ \A i \in 1..3 : q[i] \in 0..65535
       /\ sum <= 65535500
       /\ sum \div 65536 < 65536
       /\ U32(sum) = sum
       /\ y = sum \div 1000
       /\ y <= 65535
       /\ U16(y) = y

\* C15 witness: the largest channels were converted, with luma 65535
C15_Witness ==
  /\ stage = "mono"
  /\ monoIn = MkRGBA64(65535, 65535, 65535, 65535)
  /\ monoSum(65535, 65535, 65535) = 65535500
  /\ monoLuma(65535, 65535, 65535) = 65535
  /\ monoOut = White
====
